---- MODULE Spec2Model ----
(***************************************************************************)
(* A model of ColliderLine.c (the line-segment collider store and its      *)
(* swept test against a moving circle) and of SceneSystem.cpp (the staged  *)
(* queue, the archetype list and the active list of scenes).               *)
(*                                                                         *)
(* Floating-point values are modelled as exact rationals <<num, den>> with *)
(* den > 0 in lowest terms, plus the value NaN == <<0, 0>> with the IEEE   *)
(* rules the code relies on: every arithmetic operation on a NaN gives a   *)
(* NaN, and every comparison with a NaN (==, <, <=, >, >=) is false.       *)
(* Rounding is not modelled; the inputs are chosen so that every square    *)
(* root taken is rational.                                                 *)
(***************************************************************************)
EXTENDS Integers, Sequences, FiniteSets, TLC

(***************************************************************************)
(* Scalars                                                                 *)
(***************************************************************************)
NaN == <<0, 0>>

Abs(x) == IF x < 0 THEN -x ELSE x

RECURSIVE GCD(_, _)
GCD(a, b) == IF b = 0 THEN a ELSE GCD(b, a % b)

\* The rational n/d in lowest terms with a positive denominator; 0/0 is NaN.
Rat(n, d) ==
    IF d = 0 THEN NaN
    ELSE LET g == GCD(Abs(n), Abs(d))
             s == IF d < 0 THEN -1 ELSE 1
         IN  <<(s * n) \div g, (s * d) \div g>>

I(k) == <<k, 1>>

IsNaN(a) == a[2] = 0

RAdd(a, b) == IF IsNaN(a) \/ IsNaN(b) THEN NaN
              ELSE Rat(a[1] * b[2] + b[1] * a[2], a[2] * b[2])
RSub(a, b) == IF IsNaN(a) \/ IsNaN(b) THEN NaN
              ELSE Rat(a[1] * b[2] - b[1] * a[2], a[2] * b[2])
RMul(a, b) == IF IsNaN(a) \/ IsNaN(b) THEN NaN
              ELSE Rat(a[1] * b[1], a[2] * b[2])
\* A division by zero is reached only as 0/0 (the length of a zero vector).
RDiv(a, b) == IF IsNaN(a) \/ IsNaN(b) THEN NaN
              ELSE Rat(a[1] * b[2], a[2] * b[1])
RNeg(a)    == IF IsNaN(a) THEN NaN ELSE <<-a[1], a[2]>>

\* The comparisons of the C code: false as soon as an operand is a NaN.
REq(a, b) == ~IsNaN(a) /\ ~IsNaN(b) /\ a = b
RLt(a, b) == ~IsNaN(a) /\ ~IsNaN(b) /\ a[1] * b[2] < b[1] * a[2]
RLe(a, b) == ~IsNaN(a) /\ ~IsNaN(b) /\ a[1] * b[2] <= b[1] * a[2]
RGt(a, b) == RLt(b, a)
RGe(a, b) == RLe(b, a)

\* The square root of a perfect square.
ISqrt(k) == CHOOSE r \in 0..k : r * r = k
RSqrt(a) == IF IsNaN(a) THEN NaN ELSE <<ISqrt(a[1]), ISqrt(a[2])>>

(***************************************************************************)
(* Vector2D: a pair <<x, y>> of scalars                                    *)
(***************************************************************************)
V(x, y) == <<I(x), I(y)>>
ZeroVec == V(0, 0)
NaNVec == <<NaN, NaN>>

Vector2DSub(a, b) == <<RSub(a[1], b[1]), RSub(a[2], b[2])>>
Vector2DAdd(a, b) == <<RAdd(a[1], b[1]), RAdd(a[2], b[2])>>
Vector2DScale(a, k) == <<RMul(a[1], k), RMul(a[2], k)>>
Vector2DDotProduct(a, b) == RAdd(RMul(a[1], b[1]), RMul(a[2], b[2]))
Vector2DLength(a) == RSqrt(Vector2DDotProduct(a, a))
\* result = b + a * k
Vector2DScaleAdd(a, b, k) == Vector2DAdd(Vector2DScale(a, k), b)
\* Each component divided by the length: the zero vector gives 0/0, a NaN.
Vector2DNormalize(a) ==
    LET len == Vector2DLength(a) IN <<RDiv(a[1], len), RDiv(a[2], len)>>
\* The angle of a vector, kept as the unit vector <<cos, sin>> of that angle;
\* atan2(0, 0) is the angle 0.
Vector2DToAngleRad(a) ==
    IF IsNaN(a[1]) \/ IsNaN(a[2]) THEN NaNVec
    ELSE IF a = ZeroVec THEN V(1, 0)
    ELSE Vector2DNormalize(a)

(***************************************************************************)
(* State                                                                   *)
(***************************************************************************)
VARIABLES
    collider,        \* the ColliderPtr ColliderLineCreate returned: "null" or "line"
    lineCount,       \* ColliderLine.lineCount
    lineSegments,    \* ColliderLine.lineSegments[0 .. lineCount-1] inside the array
    heapPast,        \* what was written past lineSegments[cLineSegmentMax - 1]
    fault,           \* the process died on a write outside the allocation
    calls,           \* number of store calls made so far
    pc,              \* "build", "moved" (the body moved this tick), "checked"
    oldTranslation,  \* Physics: the body's position of the previous frame
    translation,     \* Transform: the body's current position
    rotation,        \* Transform: the body's rotation
    velocity,        \* Physics: the body's velocity
    call,            \* the last ColliderLineIsCollidingWithCircle call
    archetypeList,   \* SceneSystem::archetypeList, the scenes' names in order
    activeList,      \* SceneSystem::activeList, the scenes' names in order
    stagedScenes,    \* SceneSystem::stagedScenes
    sceneCalls,      \* number of SceneSystem calls made so far
    sceneOp          \* the last SceneSystem call

storeVars == <<collider, lineCount, lineSegments, heapPast, fault, calls>>
bodyVars == <<pc, oldTranslation, translation, rotation, velocity, call>>
sceneVars == <<archetypeList, activeList, stagedScenes, sceneCalls, sceneOp>>
vars == <<storeVars, bodyVars, sceneVars>>

(***************************************************************************)
(* Bounds and inputs                                                       *)
(***************************************************************************)
cLineSegmentMax == 50

\* Calls made on one store.
MaxCalls == 4
\* Appends modelled past the end of the array.
MaxOverrun == 1
\* Segments of a collider the swept test runs against.
MaxSegs == 2
\* Calls made on the scene system.
MaxSceneCalls == 5
\* Length of the staged queue.
MaxStaged == 3

NullPtr == <<>>

Seg(x0, y0, x1, y1) == <<V(x0, y0), V(x1, y1)>>

\* Horizontal, vertical and 3-4-5 diagonal segments, a reversed one, one that
\* starts where another's middle is, and a zero-length one.
SegSet ==
    { Seg(-1, 0, 1, 0), Seg(0, 0, 1, 0), Seg(-1, 1, 1, 1), Seg(1, 0, -1, 0),
      Seg(0, -1, 0, 1), Seg(-4, -3, 4, 3), Seg(0, 0, 0, 0) }

\* <<previous position, current position>> of the body in one tick.
Motions ==
    { <<V(0, -2), V(0, 2)>>, <<V(0, -2), V(0, 0)>>, <<V(0, 0), V(0, 2)>>,
      <<V(5, -1), V(5, 1)>>, <<V(0, -1), V(0, 1)>>, <<V(-3, -4), V(3, 4)>>,
      <<V(-2, 0), V(2, 0)>>, <<V(0, 2), V(0, -2)>>, <<V(0, -2), V(0, -2)>> }

Velocities == { V(3, 4), V(0, 2) }

\* A rotation is kept as the unit vector of its angle.
Rotations == { V(0, 1) }

ColliderTypes == { "ColliderTypeCircle", "ColliderTypeLine" }

NoCall ==
    [made |-> FALSE, typed |-> FALSE, segs |-> <<>>, Bs |-> ZeroVec, Be |-> ZeroVec,
     vel |-> ZeroVec, rot |-> ZeroVec, trace |-> <<>>, ret |-> FALSE]

(***************************************************************************)
(* ColliderLine.c: the segment store                                       *)
(***************************************************************************)
Store == [count |-> lineCount, segs |-> lineSegments, past |-> heapPast]

\* The body of ColliderLineAddLineSegment on a store st. The index written is
\* st.count; an index of cLineSegmentMax or more lies outside the array.
AddLineSegment(st, coll, p0, p1) ==
    IF coll # "null" /\ p0 # NullPtr /\ p1 # NullPtr
    THEN IF st.count < cLineSegmentMax
         THEN [count |-> st.count + 1, segs |-> Append(st.segs, <<p0, p1>>),
               past |-> st.past]
         ELSE [count |-> st.count + 1, segs |-> st.segs,
               past |-> Append(st.past, <<p0, p1>>)]
    ELSE st

\* The loop of ColliderLineRead over the records of a stream, followed until
\* the store is past the writes outside the array that the model follows
\* (StoreOutcome has no successor for such a store).
RECURSIVE ReadLoop(_, _, _, _)
ReadLoop(st, coll, stream, i) ==
    IF i < stream.count /\ st.count <= cLineSegmentMax + MaxOverrun
    THEN ReadLoop(AddLineSegment(st, coll, stream.recs[i + 1][1], stream.recs[i + 1][2]),
                  coll, stream, i + 1)
    ELSE st

\* A store call ends in the store st; a write outside the allocation is
\* undefined: the write lands in the memory that follows, or the process dies.
StoreOutcome(st) ==
    /\ st.count <= cLineSegmentMax + MaxOverrun
    /\ \E dies \in BOOLEAN :
          IF dies /\ Len(st.past) > Len(heapPast)
          THEN /\ fault' = TRUE
               /\ UNCHANGED <<lineCount, lineSegments, heapPast>>
          ELSE /\ ~dies
               /\ fault' = fault
               /\ lineCount' = st.count
               /\ lineSegments' = st.segs
               /\ heapPast' = st.past

ColliderLineCreate ==
    /\ ~fault /\ calls < MaxCalls
    /\ calls' = calls + 1
    /\ \E allocated \in BOOLEAN :
          collider' = IF allocated THEN "line" ELSE "null"
    /\ lineCount' = 0
    /\ lineSegments' = <<>>
    /\ UNCHANGED <<heapPast, fault>>
    /\ UNCHANGED <<bodyVars, sceneVars>>

PointArgs == { V(0, 0), V(1, 0), NullPtr }

ColliderLineAddLineSegment ==
    /\ ~fault /\ calls < MaxCalls
    /\ calls' = calls + 1
    /\ \E p0 \in PointArgs, p1 \in PointArgs :
          StoreOutcome(AddLineSegment(Store, collider, p0, p1))
    /\ UNCHANGED <<collider, bodyVars, sceneVars>>

\* A record stream: the count, then that many <<start, end>> pairs.
SegList == << Seg(-1, 0, 1, 0), Seg(0, -1, 0, 1), Seg(0, 0, 0, 0) >>
StreamCounts ==
    { -1, 0, 1, cLineSegmentMax - 1, cLineSegmentMax, cLineSegmentMax + 1 }
MkStream(n, s) ==
    [count |-> n,
     recs |-> [k \in 1..(IF n < 0 THEN 0 ELSE n) |-> SegList[((k + s) % Len(SegList)) + 1]]]
Streams == { MkStream(n, s) : n \in StreamCounts, s \in 0..1 }

ColliderLineRead ==
    /\ ~fault /\ calls < MaxCalls
    /\ calls' = calls + 1
    /\ \E stream \in Streams :
          StoreOutcome(ReadLoop(Store, collider, stream, 0))
    /\ UNCHANGED <<collider, bodyVars, sceneVars>>

(***************************************************************************)
(* ColliderLine.c: ColliderLineIsCollidingWithCircle                       *)
(***************************************************************************)
Dot(a, b) == Vector2DDotProduct(a, b)

\* e = P1 - P0; n = normalize(e.y, -e.x)
SegmentNormal(P0, P1) ==
    LET e == Vector2DSub(P1, P0)
    IN  Vector2DNormalize(<<e[2], RNeg(e[1])>>)

\* if (dot(n, v) == 0) continue;
IsParallel(n, v) == REq(Dot(n, v), I(0))

\* A side test that skips only when both positions are strictly on one side.
SideSkip_Strict(n, Bs, Be, P0) ==
    \/ RLt(Dot(n, Bs), Dot(n, P0)) /\ RLt(Dot(n, Be), Dot(n, P0))
    \/ RGt(Dot(n, Bs), Dot(n, P0)) /\ RGt(Dot(n, Be), Dot(n, P0))

\* The two side tests, either of which skips the segment.
SideSkip(n, Bs, Be, P0) ==
    \/ RLe(Dot(n, Bs), Dot(n, P0)) /\ RLt(Dot(n, Be), Dot(n, P0))
    \/ RGe(Dot(n, Bs), Dot(n, P0)) /\ RGt(Dot(n, Be), Dot(n, P0))

\* ti = (dot(n, P0) - dot(n, Bs)) / dot(n, v)
CrossingTime(n, P0, Bs, v) == RDiv(RSub(Dot(n, P0), Dot(n, Bs)), Dot(n, v))

\* Bi = Bs + v * ti
CrossingPoint(v, Bs, ti) == Vector2DScaleAdd(v, Bs, ti)

\* if (dot(P1 - P0, Bi - P0) < 0) continue;
BeforeP0(P0, P1, Bi) == RLt(Dot(Vector2DSub(P1, P0), Vector2DSub(Bi, P0)), I(0))

\* The bound check at P1 left out.
BeyondP1_Unchecked(P0, P1, Bi) == FALSE

\* if (dot(P0 - P1, Bi - P1) < 0) continue;
BeyondP1(P0, P1, Bi) == RLt(Dot(Vector2DSub(P0, P1), Vector2DSub(Bi, P1)), I(0))

\* s = n * dot(i, n); s = s * 2; r = i - s
Reflect(i, n) ==
    LET s1 == Vector2DScale(n, Dot(i, n))
        s  == Vector2DScale(s1, I(2))
    IN  Vector2DSub(i, s)

\* newVel = normalize(r) * length(oldVel)
NewVelocity(r, oldVel) ==
    LET speed == Vector2DLength(oldVel)
    IN  Vector2DScale(Vector2DNormalize(r), speed)

\* The writes of a registered crossing to the body b (its translation,
\* rotation and velocity), with i = Be - Bi and r the reflected vector.
Resolve(b, Bi, r) ==
    [translation |-> Vector2DAdd(Bi, r),
     rotation    |-> Vector2DToAngleRad(r),
     velocity    |-> NewVelocity(r, b.velocity)]

\* One pass of the loop body for the segment seg: what the pass computed and
\* the body after it. stage names the statement the pass left the body at:
\* "parallel", "side", "beforeP0", "beyondP1" (the four continue statements
\* that skip) or "resolved" (the crossing registered).
Pass(stage, n, ti, Bi, i, r, after) ==
    [stage |-> stage, n |-> n, ti |-> ti, Bi |-> Bi, i |-> i, r |-> r, after |-> after]

TestSegment(b, seg, Bs, Be, v) ==
    LET P0 == seg[1]
        P1 == seg[2]
        n  == SegmentNormal(P0, P1)
        ti == CrossingTime(n, P0, Bs, v)
        Bi == CrossingPoint(v, Bs, ti)
        i  == Vector2DSub(Be, Bi)
        r  == Reflect(i, n)
    IN  IF IsParallel(n, v)
        THEN Pass("parallel", n, NaN, NaNVec, NaNVec, NaNVec, b)
        ELSE IF SideSkip(n, Bs, Be, P0)
        THEN Pass("side", n, NaN, NaNVec, NaNVec, NaNVec, b)
        ELSE IF BeforeP0(P0, P1, Bi)
        THEN Pass("beforeP0", n, ti, Bi, NaNVec, NaNVec, b)
        ELSE IF BeyondP1(P0, P1, Bi)
        THEN Pass("beyondP1", n, ti, Bi, NaNVec, NaNVec, b)
        ELSE Pass("resolved", n, ti, Bi, i, r, Resolve(b, Bi, r))

\* for (j = 0; j < lineCount; j++): every segment is tested, in index order;
\* Bs, Be and v were read before the loop and are not read again.
RECURSIVE ScanSegments(_, _, _, _, _, _, _)
ScanSegments(j, segs, b, trace, Bs, Be, v) ==
    IF j > Len(segs)
    THEN [body |-> b, trace |-> trace]
    ELSE LET t == TestSegment(b, segs[j], Bs, Be, v)
         IN  ScanSegments(j + 1, segs, t.after, Append(trace, t), Bs, Be, v)

\* The function's only return statement: return false.
ReturnValue(trace) == FALSE

Body == [translation |-> translation, rotation |-> rotation, velocity |-> velocity]

ColliderLineIsCollidingWithCircle ==
    /\ pc = "moved"
    /\ collider = "line"
    /\ pc' = "checked"
    /\ \E otherType \in ColliderTypes :
          IF otherType = "ColliderTypeCircle"
          THEN LET Bs  == oldTranslation
                   Be  == translation
                   v   == Vector2DSub(Be, Bs)
                   res == ScanSegments(1, lineSegments, Body, <<>>, Bs, Be, v)
               IN  /\ translation' = res.body.translation
                   /\ rotation' = res.body.rotation
                   /\ velocity' = res.body.velocity
                   /\ call' = [made |-> TRUE, typed |-> TRUE, segs |-> lineSegments,
                               Bs |-> Bs, Be |-> Be, vel |-> velocity, rot |-> rotation,
                               trace |-> res.trace, ret |-> ReturnValue(res.trace)]
          ELSE /\ UNCHANGED <<translation, rotation, velocity>>
               /\ call' = [made |-> TRUE, typed |-> FALSE, segs |-> lineSegments,
                           Bs |-> oldTranslation, Be |-> translation, vel |-> velocity,
                           rot |-> rotation, trace |-> <<>>, ret |-> ReturnValue(<<>>)]
    /\ UNCHANGED <<oldTranslation, storeVars, sceneVars>>

\* The store of a collider is filled before the simulation runs against it.
BuildSegment ==
    /\ pc = "build"
    /\ lineCount < MaxSegs
    /\ \E seg \in SegSet :
          LET st == AddLineSegment(Store, collider, seg[1], seg[2])
          IN  /\ lineCount' = st.count
              /\ lineSegments' = st.segs
              /\ heapPast' = st.past
    /\ UNCHANGED <<collider, fault, calls, bodyVars, sceneVars>>

\* The physics and transform collaborators move the body for the next tick.
MoveBody ==
    /\ pc \in {"build", "checked"}
    /\ pc' = "moved"
    /\ \E m \in Motions, vel \in Velocities, rot \in Rotations :
          /\ oldTranslation' = m[1]
          /\ translation' = m[2]
          /\ velocity' = vel
          /\ rotation' = rot
    /\ call' = NoCall
    /\ UNCHANGED <<storeVars, sceneVars>>

(***************************************************************************)
(* SceneSystem.cpp                                                         *)
(* A scene is identified by its name; the clone LoadScene makes of an      *)
(* archetype carries the archetype's name.                                 *)
(***************************************************************************)
SceneNames == { "SplashDigiPen", "Level1", "Missing" }

\* The names Data/Scene/Scenes.json may list.
SceneFiles == { <<"SplashDigiPen", "Level1">>, <<"Level1", "Level1">> }

Range(seq) == { seq[k] : k \in 1..Len(seq) }

\* Non-null exactly when a scene of that name is in the list.
FindSceneArchetype(arch, sceneName) == \E k \in 1..Len(arch) : arch[k] = sceneName
FindSceneActive(active, sceneName) == \E k \in 1..Len(active) : active[k] = sceneName

\* LoadScene without the look-up in the active list.
LoadSceneInto_NoActiveCheck(active, arch, sceneName) ==
    IF FindSceneArchetype(arch, sceneName) THEN Append(active, sceneName) ELSE active

\* The active list after LoadScene(sceneName).
LoadSceneInto(active, arch, sceneName) ==
    IF ~FindSceneActive(active, sceneName)
    THEN IF FindSceneArchetype(arch, sceneName)
         THEN Append(active, sceneName)
         ELSE active
    ELSE active

\* The active list after the loop of UnloadScene: the first match is erased.
RECURSIVE EraseFirst(_, _)
EraseFirst(active, sceneName) ==
    IF active = <<>> THEN <<>>
    ELSE IF Head(active) = sceneName THEN Tail(active)
    ELSE <<Head(active)>> \o EraseFirst(Tail(active), sceneName)

SceneCall(op, name) ==
    /\ sceneCalls < MaxSceneCalls
    /\ sceneCalls' = sceneCalls + 1
    /\ sceneOp' = [op |-> op, name |-> name, active |-> activeList,
                   staged |-> stagedScenes, arch |-> archetypeList]

\* Init(): Deserialize() appends one archetype per listed name, then
\* LoadScene("SplashDigiPen").
SceneSystemInit ==
    /\ SceneCall("Init", "SplashDigiPen")
    /\ \E file \in SceneFiles :
          /\ archetypeList' = archetypeList \o file
          /\ activeList' = LoadSceneInto(activeList, archetypeList \o file, "SplashDigiPen")
    /\ UNCHANGED <<stagedScenes, storeVars, bodyVars>>

StageScene ==
    /\ Len(stagedScenes) < MaxStaged
    /\ \E name \in SceneNames :
          /\ SceneCall("StageScene", name)
          /\ stagedScenes' = Append(stagedScenes, name)
    /\ UNCHANGED <<archetypeList, activeList, storeVars, bodyVars>>

Update ==
    /\ SceneCall("Update", "")
    /\ IF stagedScenes # <<>>
       THEN /\ activeList' = LoadSceneInto(activeList, archetypeList, Head(stagedScenes))
            /\ stagedScenes' = Tail(stagedScenes)
       ELSE UNCHANGED <<activeList, stagedScenes>>
    /\ UNCHANGED <<archetypeList, storeVars, bodyVars>>

LoadScene ==
    /\ \E name \in SceneNames :
          /\ SceneCall("LoadScene", name)
          /\ activeList' = LoadSceneInto(activeList, archetypeList, name)
    /\ UNCHANGED <<archetypeList, stagedScenes, storeVars, bodyVars>>

UnloadScene ==
    /\ \E name \in SceneNames :
          /\ SceneCall("UnloadScene", name)
          /\ activeList' = EraseFirst(activeList, name)
    /\ UNCHANGED <<archetypeList, stagedScenes, storeVars, bodyVars>>

\* Shutdown() empties the archetype list and the active list.
Shutdown ==
    /\ SceneCall("Shutdown", "")
    /\ archetypeList' = <<>>
    /\ activeList' = <<>>
    /\ UNCHANGED <<stagedScenes, storeVars, bodyVars>>

(***************************************************************************)
(* Specifications                                                          *)
(***************************************************************************)
InitStore ==
    /\ collider = "null"
    /\ lineCount = 0
    /\ lineSegments = <<>>
    /\ heapPast = <<>>
    /\ fault = FALSE
    /\ calls = 0

InitBody ==
    /\ pc = "build"
    /\ oldTranslation = ZeroVec
    /\ translation = ZeroVec
    /\ rotation = V(0, 1)
    /\ velocity = ZeroVec
    /\ call = NoCall

InitScene ==
    /\ archetypeList = <<>>
    /\ activeList = <<>>
    /\ stagedScenes = <<>>
    /\ sceneCalls = 0
    /\ sceneOp = [op |-> "none", name |-> "", active |-> <<>>, staged |-> <<>>,
                  arch |-> <<>>]

\* The store: any sequence of ColliderLineCreate, ColliderLineAddLineSegment
\* and ColliderLineRead calls.
Init == InitStore /\ InitBody /\ InitScene
NextStore == ColliderLineCreate \/ ColliderLineAddLineSegment \/ ColliderLineRead
SpecStore == Init /\ [][NextStore]_vars

\* The swept test: a collider ColliderLineCreate allocated is filled, then
\* the body moves and is tested against it, tick after tick.
InitCollide ==
    /\ collider = "line" /\ lineCount = 0 /\ lineSegments = <<>>
    /\ heapPast = <<>> /\ fault = FALSE /\ calls = 0
    /\ InitBody /\ InitScene
NextCollide == BuildSegment \/ MoveBody \/ ColliderLineIsCollidingWithCircle
SpecCollide == InitCollide /\ [][NextCollide]_vars

\* The scene system: any sequence of its calls.
NextScene ==
    SceneSystemInit \/ StageScene \/ Update \/ LoadScene \/ UnloadScene \/ Shutdown
SpecScene == Init /\ [][NextScene]_vars

(***************************************************************************)
(* Properties                                                              *)
(***************************************************************************)
\* The call of ColliderLineIsCollidingWithCircle this state records ran the loop.
Tested == call.made /\ call.typed

Passes == 1..Len(call.trace)

Resolved(j) == call.trace[j].stage = "resolved"

\* The body before pass j of the recorded call.
BodyBefore(j) ==
    IF j = 1
    THEN [translation |-> call.Be, rotation |-> call.rot, velocity |-> call.vel]
    ELSE call.trace[j - 1].after

FinalBody == [translation |-> translation, rotation |-> rotation, velocity |-> velocity]

IsNumber(a) == ~IsNaN(a[1]) /\ ~IsNaN(a[2])

\* C1: the call returns true if and only if at least one segment registered a
\* crossing during it.
C1_ReturnsWhetherCrossed ==
    call.made => (call.ret <=> \E j \in Passes : Resolved(j))

\* C2: lineCount never exceeds cLineSegmentMax, and no append writes outside
\* the array: an append on a full store is rejected.
C2_CapacityEnforced ==
    /\ lineCount <= cLineSegmentMax
    /\ Len(lineSegments) = lineCount
    /\ heapPast = <<>>
    /\ ~fault

\* C3: every segment is tested, in index order, and when two or more segments
\* register a crossing the body ends as if the highest-indexed of them alone
\* had been resolved, from the position, rotation and velocity held before
\* the call.
C3_LastSegmentAlone ==
    Tested =>
        /\ Len(call.trace) = Len(call.segs)
        /\ Cardinality({ j \in Passes : Resolved(j) }) >= 2 =>
              LET last == CHOOSE j \in Passes :
                              Resolved(j) /\ \A k \in Passes : Resolved(k) => k <= j
                  alone == TestSegment(BodyBefore(1), call.segs[last], call.Bs, call.Be,
                                       Vector2DSub(call.Be, call.Bs))
              IN  FinalBody = alone.after

\* The crossing point of the motion with the infinite line of a segment.
LinePoint(seg) ==
    LET v == Vector2DSub(call.Be, call.Bs)
        n == SegmentNormal(seg[1], seg[2])
    IN  CrossingPoint(v, call.Bs, CrossingTime(n, seg[1], call.Bs, v))

OutsideSegment(seg, Bi) ==
    \/ RLt(Dot(Vector2DSub(seg[2], seg[1]), Vector2DSub(Bi, seg[1])), I(0))
    \/ RLt(Dot(Vector2DSub(seg[1], seg[2]), Vector2DSub(Bi, seg[2])), I(0))

\* C4: a segment whose infinite line the motion crosses outside the finite
\* segment registers no crossing and causes no write to the body.
C4_BoundedIntersection ==
    Tested =>
        \A j \in Passes :
            OutsideSegment(call.segs[j], LinePoint(call.segs[j])) =>
                /\ ~Resolved(j)
                /\ call.trace[j].after = BodyBefore(j)

\* The spec's example: segment (0,0)-(1,0), motion (5,-1) to (5,1), crossing
\* the line at (5,0); the body is left where it was.
C4_Witness ==
    /\ Tested
    /\ call.Bs = V(5, -1) /\ call.Be = V(5, 1)
    /\ \E j \in Passes :
          /\ call.segs[j] = Seg(0, 0, 1, 0)
          /\ call.trace[j].Bi = V(5, 0)
          /\ call.trace[j].stage = "beyondP1"
    /\ translation = V(5, 1)

\* The projections on the normal of the previous position, the current
\* position and the segment's start.
SideOf(j, P) == Dot(call.trace[j].n, P)
LineOf(j) == Dot(call.trace[j].n, call.segs[j][1])

Computed(j) == call.trace[j].stage \in {"beforeP0", "beyondP1", "resolved"}

\* C5 as stated: a segment not parallel to the motion is skipped by the side
\* test if and only if both positions lie strictly on the same side of its
\* line; otherwise t and Bi are computed.
C5_SkipIffStrictlySameSide ==
    Tested =>
        \A j \in Passes :
            call.trace[j].stage # "parallel" =>
                LET same ==
                        \/ RLt(SideOf(j, call.Bs), LineOf(j)) /\ RLt(SideOf(j, call.Be), LineOf(j))
                        \/ RGt(SideOf(j, call.Bs), LineOf(j)) /\ RGt(SideOf(j, call.Be), LineOf(j))
                IN  /\ call.trace[j].stage = "side" <=> same
                    /\ ~same <=> Computed(j)

\* C5 as amended: a segment not parallel to the motion is skipped by the side
\* test if and only if the current position lies strictly on one side of its
\* line and the previous position does not lie strictly on the other side
\* (it lies on the same side or exactly on the line); otherwise t and Bi are
\* computed.
C5_SkipIffNotCrossedFromLine ==
    Tested =>
        \A j \in Passes :
            call.trace[j].stage # "parallel" =>
                LET skip ==
                        \/ RLt(SideOf(j, call.Be), LineOf(j))
                              /\ (RLt(SideOf(j, call.Bs), LineOf(j)) \/ REq(SideOf(j, call.Bs), LineOf(j)))
                        \/ RGt(SideOf(j, call.Be), LineOf(j))
                              /\ (RGt(SideOf(j, call.Bs), LineOf(j)) \/ REq(SideOf(j, call.Bs), LineOf(j)))
                IN  /\ call.trace[j].stage = "side" <=> skip
                    /\ ~skip <=> Computed(j)

\* A segment is skipped by the side test with the previous position exactly
\* on its line, and another has t and Bi computed.
C5_Witness ==
    /\ Tested
    /\ \E j \in Passes :
          /\ call.trace[j].stage = "side"
          /\ REq(SideOf(j, call.Bs), LineOf(j))
    /\ \E j \in Passes : Computed(j)

\* C6: after a call in which at least one segment registered a crossing with
\* a non-zero reflected vector, the speed of the body is its speed before the
\* call.
C6_SpeedPreserved ==
    Tested /\ (\E j \in Passes :
                 Resolved(j) /\ IsNumber(call.trace[j].r) /\ call.trace[j].r # ZeroVec)
        => REq(Vector2DLength(velocity), Vector2DLength(call.vel))

\* C7: the reflected vector r of every registered crossing satisfies
\* dot(r, n) = -dot(i, n) and dot(r, tangent) = dot(i, tangent).
C7_SpecularReflection ==
    Tested =>
        \A j \in Passes :
            Resolved(j) =>
                LET p == call.trace[j]
                    tangent == Vector2DSub(call.segs[j][2], call.segs[j][1])
                IN  /\ REq(Dot(p.r, p.n), RNeg(Dot(p.i, p.n)))
                    /\ REq(Dot(p.r, tangent), Dot(p.i, tangent))

\* C9: every segment that passes the parallel test and the side test has a
\* crossing time ti with 0 <= ti <= 1.
C9_CrossingTimeInUnitInterval ==
    Tested =>
        \A j \in Passes :
            Computed(j) => RLe(I(0), call.trace[j].ti) /\ RLe(call.trace[j].ti, I(1))

\* C8: after Update every name staged before it has been loaded: the staged
\* queue is empty and every such name with an archetype is active.
C8_UpdateLoadsAllStaged ==
    sceneOp.op = "Update" =>
        /\ stagedScenes = <<>>
        /\ \A name \in Range(sceneOp.staged) :
              FindSceneArchetype(archetypeList, name) => name \in Range(activeList)

\* C10: the active list never holds two scenes of one name; LoadScene of a
\* name already active, or of a name with no archetype, leaves it unchanged.
C10_ActiveNamesUnique ==
    /\ \A k, l \in 1..Len(activeList) : activeList[k] = activeList[l] => k = l
    /\ sceneOp.op = "LoadScene" /\ sceneOp.name \in Range(sceneOp.active)
          => activeList = sceneOp.active
    /\ sceneOp.op = "LoadScene" /\ sceneOp.name \notin Range(sceneOp.arch)
          => activeList = sceneOp.active

\* LoadScene was called for a name that was active, beside another scene.
C10_Witness ==
    /\ sceneOp.op = "LoadScene"
    /\ sceneOp.name \in Range(sceneOp.active)
    /\ Len(activeList) >= 2

====
